---- MODULE Spec2Model ----
(***************************************************************************)
(* A model of the Adaptive Taxonomy Mapper (src/taxonomy_mapper.py): the   *)
(* deterministic candidate extractor, the anti-hallucination validator,    *)
(* the classification pipeline map_story and the batch runner              *)
(* process_test_cases, with the four metrics counters of the instance.     *)
(*                                                                         *)
(* Text is modelled as a sequence of one-character strings, so that        *)
(* str.lower() and the substring test `kw in snippet` are computed.        *)
(* Genre and sub-genre names are atoms (strings without whitespace and     *)
(* without "/"); the category string f"{genre}/{subgenre}" is the          *)
(* sequence <<genre, "/", subgenre>> and the sentinel is <<"[UNMAPPED]">>. *)
(* Confidences are integers in hundredths (0.85 is 85).                    *)
(***************************************************************************)
EXTENDS Integers, Sequences, FiniteSets, TLC

VARIABLES
    taxonomy,               \* self.taxonomy
    valid_categories,       \* self.valid_categories
    hash_seed,              \* the process's string-hash seed (set iteration order)
    llm_call_count,         \* self.llm_call_count
    total_tokens,           \* self.total_tokens
    validation_triggers,    \* self.validation_triggers
    hallucinations_caught,  \* self.hallucinations_caught
    pc,                     \* position of process_test_cases
    results,                \* the list `results` of process_test_cases
    last,                   \* the most recent call of map_story: inputs and outcome
    invocations,            \* number of calls of client.chat.completions.create
    ext,                    \* the most recent direct call of _extract_candidate_subgenres
    val                     \* the most recent direct call of _validate_mapping

vars == << taxonomy, valid_categories, hash_seed, llm_call_count, total_tokens,
           validation_triggers, hallucinations_caught, pc, results, last,
           invocations, ext, val >>

counters == << llm_call_count, total_tokens, validation_triggers, hallucinations_caught >>

-----------------------------------------------------------------------------
(* Bounds *)

MaxSnippetLen == 4

MaxCases == 2

MaxValidateCalls == 3

-----------------------------------------------------------------------------
(* Text *)

UpperToLower ==
   "A" :> "a" @@ "B" :> "b" @@ "C" :> "c" @@ "D" :> "d" @@ "E" :> "e" @@ "F" :> "f" @@
   "G" :> "g" @@ "H" :> "h" @@ "I" :> "i" @@ "J" :> "j" @@ "K" :> "k" @@ "L" :> "l" @@
   "M" :> "m" @@ "N" :> "n" @@ "O" :> "o" @@ "P" :> "p" @@ "Q" :> "q" @@ "R" :> "r" @@
   "S" :> "s" @@ "T" :> "t" @@ "U" :> "u" @@ "V" :> "v" @@ "W" :> "w" @@ "X" :> "x" @@
   "Y" :> "y" @@ "Z" :> "z"

\* str.lower() on one character
LowerChar(c) == IF c \in DOMAIN UpperToLower THEN UpperToLower[c] ELSE c

RECURSIVE Lower(_)
\* str.lower()
Lower(s) == IF s = << >> THEN << >> ELSE << LowerChar(Head(s)) >> \o Lower(Tail(s))

\* the substring test `kw in snippet`
Contains(snippet, kw) ==
    \E i \in 0..(Len(snippet) - Len(kw)) : SubSeq(snippet, i + 1, i + Len(kw)) = kw

IsSpace(c) == c = " "

\* len(text.split()): the number of maximal runs of non-whitespace characters
WordCount(text) ==
    Cardinality({i \in 1..Len(text) :
        /\ ~IsSpace(text[i])
        /\ (i = 1 \/ IsSpace(text[i - 1]))})

-----------------------------------------------------------------------------
(* The static keyword map *)

keyword_map ==
       "Enemies-to-Lovers" :> << <<"e", "n", "e", "m", "y">>,
            <<"e", "n", "e", "m", "i", "e", "s">>,
            <<"r", "i", "v", "a", "l">>,
            <<"h", "a", "t", "e">>,
            <<"t", "e", "n", "s", "i", "o", "n">> >>
    @@ "Slow-burn" :> << <<"s", "l", "o", "w">>,
            <<"g", "r", "a", "d", "u", "a", "l">>,
            <<"y", "e", "a", "r", "s">>,
            <<"p", "a", "t", "i", "e", "n", "c", "e">> >>
    @@ "Second Chance" :> << <<"a", "g", "a", "i", "n">>,
            <<"r", "e", "u", "n", "i", "t", "e">>,
            <<"y", "e", "a", "r", "s", " ", "l", "a", "t", "e", "r">>,
            <<"r", "e", "t", "u", "r", "n">>,
            <<"e", "x", "-">> >>
    @@ "Espionage" :> << <<"s", "p", "y">>,
            <<"a", "g", "e", "n", "t">>,
            <<"i", "n", "t", "e", "l", "l", "i", "g", "e", "n", "c", "e">>,
            <<"c", "o", "v", "e", "r", "t">>,
            <<"c", "i", "a">>,
            <<"m", "i", "6">> >>
    @@ "Psychological" :> << <<"m", "i", "n", "d">>,
            <<"o", "b", "s", "e", "s", "s", "i", "o", "n">>,
            <<"p", "a", "r", "a", "n", "o", "i", "a">>,
            <<"s", "a", "n", "i", "t", "y">> >>
    @@ "Legal Thriller" :> << <<"l", "a", "w", "y", "e", "r">>,
            <<"c", "o", "u", "r", "t">>,
            <<"t", "r", "i", "a", "l">>,
            <<"j", "u", "d", "g", "e">>,
            <<"v", "e", "r", "d", "i", "c", "t">> >>
    @@ "Hard Sci-Fi" :> << <<"p", "h", "y", "s", "i", "c", "s">>,
            <<"q", "u", "a", "n", "t", "u", "m">>,
            <<"e", "n", "g", "i", "n", "e", "e", "r", "i", "n", "g">>,
            <<"s", "t", "a", "s", "i", "s">> >>
    @@ "Space Opera" :> << <<"g", "a", "l", "a", "x", "y">>,
            <<"e", "m", "p", "i", "r", "e">>,
            <<"f", "l", "e", "e", "t">>,
            <<"i", "n", "t", "e", "r", "s", "t", "e", "l", "l", "a", "r">> >>
    @@ "Cyberpunk" :> << <<"c", "y", "b", "e", "r">>,
            <<"n", "e", "o", "n">>,
            <<"h", "a", "c", "k", "e", "r">>,
            <<"d", "y", "s", "t", "o", "p", "i", "a">>,
            <<"a", "i">> >>
    @@ "Psychological Horror" :> << <<"t", "e", "r", "r", "o", "r">>,
            <<"m", "a", "d", "n", "e", "s", "s">>,
            <<"f", "e", "a", "r">>,
            <<"n", "i", "g", "h", "t", "m", "a", "r", "e">> >>
    @@ "Gothic" :> << <<"m", "a", "n", "s", "i", "o", "n">>,
            <<"h", "a", "u", "n", "t", "e", "d">>,
            <<"f", "o", "g">>,
            <<"c", "a", "s", "t", "l", "e">>,
            <<"s", "h", "a", "d", "o", "w", "s">> >>
    @@ "Slasher" :> << <<"k", "i", "l", "l", "e", "r">>,
            <<"m", "u", "r", "d", "e", "r">>,
            <<"b", "l", "o", "o", "d">>,
            <<"s", "t", "a", "l", "k", "s">>,
            <<"m", "a", "s", "k", "e", "d">> >>

\* self.keyword_map.get(subgenre, [])
KeywordsOf(subgenre) ==
    IF subgenre \in DOMAIN keyword_map THEN keyword_map[subgenre] ELSE << >>

-----------------------------------------------------------------------------
(* The taxonomy: Category -> Genre -> list of Sub-genre names.  A mapping   *)
(* is a sequence of <<key, value>> entries with distinct keys, in the       *)
(* order that .items() yields them.                                         *)

UNMAPPED == << "[UNMAPPED]" >>

\* f"{genre}/{subgenre}"
Category(genre, subgenre) == << genre, "/", subgenre >>

Taxonomies ==
    { \* one category, two genres, one sub-genre each
      << << "Fiction", << << "Thriller", << "Espionage" >> >>,
                          << "Sci-Fi", << "Cyberpunk" >> >> >> >> >>,
      \* a sub-genre the keyword map does not know
      << << "Fiction", << << "Thriller", << "Espionage", "SuperSpy" >> >>,
                          << "Sci-Fi", << "Cyberpunk" >> >> >> >> >>,
      \* the same genre under two categories
      << << "Fiction", << << "Thriller", << "Espionage" >> >> >> >>,
         << "Film",    << << "Thriller", << "Espionage", "Cyberpunk" >> >> >> >> >>,
      \* one sub-genre under two genres
      << << "Fiction", << << "Thriller", << "Espionage", "Cyberpunk" >> >>,
                          << "Sci-Fi", << "Cyberpunk" >> >> >> >> >>,
      \* a sub-genre listed twice, and a genre without sub-genres
      << << "Fiction", << << "Thriller", << "Espionage", "Espionage" >> >>,
                          << "Sci-Fi", << >> >> >> >> >>,
      \* genre and sub-genre of the same name
      << << "Thriller", << << "Espionage", << "Espionage" >> >> >> >> >> }

RECURSIVE SubgenrePairs(_, _)
\* `for subgenre in subgenres` under one genre: the <<genre, subgenre>> visited
SubgenrePairs(genre, subgenres) ==
    IF subgenres = << >> THEN << >>
    ELSE << << genre, Head(subgenres) >> >> \o SubgenrePairs(genre, Tail(subgenres))

RECURSIVE GenrePairs(_)
\* `for genre, subgenres in genres.items()`
GenrePairs(genres) ==
    IF genres = << >> THEN << >>
    ELSE SubgenrePairs(Head(genres)[1], Head(genres)[2]) \o GenrePairs(Tail(genres))

RECURSIVE TaxonomyPairs(_)
\* `for _, genres in self.taxonomy.items()`: every <<genre, subgenre>> in visiting order
TaxonomyPairs(tax) ==
    IF tax = << >> THEN << >>
    ELSE GenrePairs(Head(tax)[2]) \o TaxonomyPairs(Tail(tax))

\* _build_valid_category_set, for a well-formed taxonomy
BuildValidCategorySet(tax) ==
    LET pairs == TaxonomyPairs(tax)
    IN  { Category(pairs[i][1], pairs[i][2]) : i \in 1..Len(pairs) }

-----------------------------------------------------------------------------
(* Deterministic candidate extraction *)

HitsFirstKeywordOnly(subgenre, snippet) ==
    LET keywords == KeywordsOf(subgenre)
    IN  IF keywords # << >> /\ Contains(snippet, Head(keywords))
        THEN << Head(keywords) >> ELSE << >>

\* hits = [kw for kw in keywords if kw in snippet]
Hits(subgenre, snippet) ==
    SelectSeq(KeywordsOf(subgenre), LAMBDA kw : Contains(snippet, kw))

RECURSIVE Enumerate(_)
Enumerate(S) ==
    IF S = {} THEN << >>
    ELSE LET x == CHOOSE y \in S : TRUE IN << x >> \o Enumerate(S \ {x})

RECURSIVE Reverse(_)
Reverse(s) == IF s = << >> THEN << >> ELSE Append(Reverse(Tail(s)), Head(s))

HashSeeds == {0, 1}

\* list(candidates): the elements of the set, each once, in the iteration
\* order of this process (fixed by its hash seed, arbitrary otherwise)
ListOfSet(S, seed) == IF seed = 0 THEN Enumerate(S) ELSE Reverse(Enumerate(S))

RECURSIVE Scan(_, _, _, _)
\* the three nested loops over the <<genre, subgenre>> still to visit, with
\* the set `candidates` and the list `matched_patterns` built so far
Scan(pairs, snippet, candidates, matched_patterns) ==
    IF pairs = << >>
    THEN [candidates |-> candidates, matched_patterns |-> matched_patterns]
    ELSE LET genre    == Head(pairs)[1]
             subgenre == Head(pairs)[2]
             hits     == Hits(subgenre, snippet)
         IN  IF hits # << >>
             THEN Scan(Tail(pairs), snippet,
                       candidates \cup { Category(genre, subgenre) },
                       matched_patterns \o hits)
             ELSE Scan(Tail(pairs), snippet, candidates, matched_patterns)

\* _extract_candidate_subgenres
ExtractCandidateSubgenres(tax, seed, story_snippet) ==
    LET scanned == Scan(TaxonomyPairs(tax), Lower(story_snippet), {}, << >>)
    IN  [ candidates       |-> ListOfSet(scanned.candidates, seed),
          matched_patterns |-> scanned.matched_patterns ]

-----------------------------------------------------------------------------
(* Validation layer.  A JSON value handed to the validator is a record      *)
(* [type, str]: a string (with its text), null, or an array.                *)

JsonString(s) == [type |-> "string", str |-> s]
JsonNull      == [type |-> "null",   str |-> << >>]
JsonArray     == [type |-> "array",  str |-> << >>]

ValidateMappingTrusting(mapped_category, caught) ==
    IF mapped_category.type = "array"
    THEN [raised |-> TRUE, category |-> UNMAPPED, corrected |-> FALSE,
          hallucinations_caught |-> caught]
    ELSE IF mapped_category.type = "string"
    THEN [raised |-> FALSE, category |-> mapped_category.str, corrected |-> FALSE,
          hallucinations_caught |-> caught]
    ELSE [raised |-> FALSE, category |-> UNMAPPED, corrected |-> TRUE,
          hallucinations_caught |-> caught + 1]

ValidateMappingNoSentinel(mapped_category, caught) ==
    IF mapped_category.type = "array"
    THEN [raised |-> TRUE, category |-> UNMAPPED, corrected |-> FALSE,
          hallucinations_caught |-> caught]
    ELSE IF mapped_category.type = "string" /\ mapped_category.str \in valid_categories
    THEN [raised |-> FALSE, category |-> mapped_category.str, corrected |-> FALSE,
          hallucinations_caught |-> caught]
    ELSE [raised |-> FALSE, category |-> UNMAPPED, corrected |-> TRUE,
          hallucinations_caught |-> caught + 1]

ValidateMappingInverted(mapped_category, caught) ==
    IF mapped_category.type = "string" /\ mapped_category.str = UNMAPPED
    THEN [raised |-> FALSE, category |-> UNMAPPED, corrected |-> FALSE,
          hallucinations_caught |-> caught]
    ELSE IF mapped_category.type = "array"
    THEN [raised |-> TRUE, category |-> UNMAPPED, corrected |-> FALSE,
          hallucinations_caught |-> caught]
    ELSE IF mapped_category.type = "string" /\ mapped_category.str \notin valid_categories
    THEN [raised |-> FALSE, category |-> mapped_category.str, corrected |-> FALSE,
          hallucinations_caught |-> caught]
    ELSE [raised |-> FALSE, category |-> UNMAPPED, corrected |-> TRUE,
          hallucinations_caught |-> caught + 1]

\* _validate_mapping; `caught` is self.hallucinations_caught before the call
ValidateMapping(mapped_category, caught) ==
    IF mapped_category.type = "string" /\ mapped_category.str = UNMAPPED
    THEN [raised |-> FALSE, category |-> UNMAPPED, corrected |-> FALSE,
          hallucinations_caught |-> caught]
    ELSE IF mapped_category.type = "array"
    THEN \* `in` on a set hashes its operand: TypeError for a list
         [raised |-> TRUE, category |-> UNMAPPED, corrected |-> FALSE,
          hallucinations_caught |-> caught]
    ELSE IF mapped_category.type = "string" /\ mapped_category.str \in valid_categories
    THEN [raised |-> FALSE, category |-> mapped_category.str, corrected |-> FALSE,
          hallucinations_caught |-> caught]
    ELSE [raised |-> FALSE, category |-> UNMAPPED, corrected |-> TRUE,
          hallucinations_caught |-> caught + 1]

-----------------------------------------------------------------------------
(* Prompt construction and the metrics of one model call *)

\* the words of the prompt template around its three placeholders
PromptTemplateWords == 61

\* len(prompt.split()) for the prompt of _build_prompt: str(candidates) has
\* one word per candidate, str(user_tags) one per tag ("[]" is one word), and
\* the snippet is rendered between double quotes
PromptWords(candidates, user_tags, story_snippet) ==
    PromptTemplateWords
        + Len(candidates)
        + (IF Len(user_tags) = 0 THEN 1 ELSE Len(user_tags))
        + WordCount(<< "\"" >> \o story_snippet \o << "\"" >>)

Counters(calls, tokens, triggers, caught) ==
    [ llm_call_count |-> calls, total_tokens |-> tokens,
      validation_triggers |-> triggers, hallucinations_caught |-> caught ]

CountCallAssigning(ctr, words) ==
    [ctr EXCEPT !.llm_call_count = @ + 1, !.total_tokens = words]

CountCallTokensOnly(ctr, words) ==
    [ctr EXCEPT !.total_tokens = @ + words]

\* self.llm_call_count += 1; self.total_tokens += len(prompt.split())
CountCall(ctr, words) ==
    [ctr EXCEPT !.llm_call_count = @ + 1, !.total_tokens = @ + words]

-----------------------------------------------------------------------------
(* The model's responses.  A response is a failure of the completion call,  *)
(* text that json.loads rejects, JSON that is no object, or a JSON object   *)
(* whose three fields are each present or absent.                           *)

Absent == [present |-> FALSE, value |-> JsonNull]
Field(v) == [present |-> TRUE, value |-> v]

NoConfidence == [present |-> FALSE, value |-> 0]

Response(shape, category, confidence, has_reasoning) ==
    [ shape |-> shape, mapped_category |-> category, confidence |-> confidence,
      has_reasoning |-> has_reasoning ]

\* category strings the model may invent
InventedCategories == { Category("Espionage", "SuperSpy") }

ModelCategories ==
    { Absent, Field(JsonString(UNMAPPED)), Field(JsonArray) }
        \cup { Field(JsonString(c)) : c \in valid_categories \cup InventedCategories }

\* confidence values the model may send, in hundredths
ModelConfidences == { NoConfidence } \cup { [present |-> TRUE, value |-> v] : v \in {150} }

NoResponse == Response("none", Absent, NoConfidence, FALSE)

Responses ==
    { Response(s, Absent, NoConfidence, FALSE) :
        s \in {"service_error", "malformed_json"} }
    \cup { Response("object", c, f, r) :
            c \in ModelCategories, f \in ModelConfidences, r \in BOOLEAN }

-----------------------------------------------------------------------------
(* Core classification pipeline *)

\* llm_output.get("confidence", 0.85)
Confidence(llm_output) ==
    IF llm_output.confidence.present THEN llm_output.confidence.value ELSE 85

Result(category, confidence, reasoning, validated, patterns) ==
    [ mapped_category |-> category, confidence |-> confidence,
      reasoning |-> reasoning, validated |-> validated, patterns |-> patterns ]

\* the result returned when no candidate was found
NoSignalResult ==
    Result(UNMAPPED, 99, << "No deterministic semantic signals matched taxonomy." >>,
           FALSE, << >>)

\* the value of `result` where map_story raised
NoResult == Result(<< >>, 0, << >>, FALSE, << >>)

ShortCircuitsNever(candidates) == FALSE

\* `if not candidates`
ShortCircuits(candidates) == candidates = << >>

\* patterns[:5]
FirstFive(patterns) ==
    SubSeq(patterns, 1, IF Len(patterns) < 5 THEN Len(patterns) ELSE 5)

\* what one call of map_story did
Outcome(raised, error, result, ctr, extracted, invoked, answer, rejected) ==
    [ entered |-> TRUE, extracted |-> TRUE, raised |-> raised, error |-> error,
      result |-> result,
      ctr |-> ctr, candidates |-> extracted.candidates,
      patterns |-> extracted.matched_patterns, invoked |-> invoked,
      answer |-> answer, rejected |-> rejected ]

NoExtraction == [candidates |-> << >>, matched_patterns |-> << >>]

\* map_story(user_tags, story_snippet, case_id) with the model answering
\* `response`; ctr holds the four counters before the call
MapStory(user_tags, story_snippet, response, ctr) ==
    IF story_snippet.type # "string"
    THEN \* story_snippet.lower() on a value that is no string
         [Outcome(TRUE, "AttributeError", NoResult, ctr, NoExtraction, 0, Absent, FALSE)
             EXCEPT !.extracted = FALSE]
    ELSE
    LET extracted == ExtractCandidateSubgenres(taxonomy, hash_seed, story_snippet.str)
    IN
    IF ShortCircuits(extracted.candidates)
    THEN Outcome(FALSE, "", NoSignalResult, ctr, extracted, 0, Absent, FALSE)
    ELSE
    LET words == PromptWords(extracted.candidates, user_tags, story_snippet.str)
        ctr1  == CountCall(ctr, words)
    IN
    IF response.shape = "service_error"
    THEN Outcome(TRUE, "APIError", NoResult, ctr1, extracted, 1, Absent, FALSE)
    ELSE IF response.shape = "malformed_json"
    THEN Outcome(TRUE, "JSONDecodeError", NoResult, ctr1, extracted, 1, Absent, FALSE)
    ELSE IF response.shape = "not_object"
    THEN Outcome(TRUE, "TypeError", NoResult, ctr1, extracted, 1, Absent, FALSE)
    ELSE IF ~response.mapped_category.present
    THEN Outcome(TRUE, "KeyError('mapped_category')", NoResult, ctr1, extracted, 1,
                 Absent, FALSE)
    ELSE
    LET answer == response.mapped_category
        v      == ValidateMapping(answer.value, ctr1.hallucinations_caught)
    IN
    IF v.raised
    THEN Outcome(TRUE, "TypeError", NoResult, ctr1, extracted, 1, answer, FALSE)
    ELSE
    LET ctr2 == [ctr1 EXCEPT
                    !.hallucinations_caught = v.hallucinations_caught,
                    !.validation_triggers = IF v.corrected THEN @ + 1 ELSE @]
    IN
    IF ~response.has_reasoning
    THEN Outcome(TRUE, "KeyError('reasoning')", NoResult, ctr2, extracted, 1, answer,
                 v.corrected)
    ELSE Outcome(FALSE, "",
                 Result(v.category, Confidence(response), << "model reasoning" >>,
                        v.corrected, FirstFive(extracted.matched_patterns)),
                 ctr2, extracted, 1, answer, v.corrected)

-----------------------------------------------------------------------------
(* Batch processing *)

\* the result built by the except clause for the error e
DegradedResult(error) ==
    Result(UNMAPPED, 0, << "System error: ", error >>, FALSE, << >>)

\* the record appended to `results`
Record(id, result, expected_logic) ==
    [ test_case_id |-> id, mapped_category |-> result.mapped_category,
      confidence |-> result.confidence, validated |-> result.validated,
      reasoning |-> result.reasoning, expected_logic |-> expected_logic ]

\* a call that raised before map_story was entered
NotEntered(error, ctr) ==
    [Outcome(TRUE, error, NoResult, ctr, NoExtraction, 0, Absent, FALSE)
        EXCEPT !.entered = FALSE, !.extracted = FALSE]

\* the body of the try block for one case
TryMapStory(case, response, ctr) ==
    IF ~case.has_user_tags THEN NotEntered("KeyError('user_tags')", ctr)
    ELSE IF ~case.has_story_snippet THEN NotEntered("KeyError('story_snippet')", ctr)
    ELSE IF ~case.has_id THEN NotEntered("KeyError('id')", ctr)
    ELSE MapStory(case.user_tags, case.story_snippet, response, ctr)

\* whether the try block for this case reaches the completion call
ReachesModel(case) ==
    /\ case.has_user_tags /\ case.has_story_snippet /\ case.has_id
    /\ case.story_snippet.type = "string"
    /\ ~ShortCircuits(
           ExtractCandidateSubgenres(taxonomy, hash_seed, case.story_snippet.str).candidates)

\* story snippets of the test cases: "AI", "ciAi", "a c"
StorySnippets ==
    { << "A", "I" >>, << "c", "i", "A", "i" >>, << "a", " ", "c" >> }

\* the user_tags of the test cases
UserTags == { << "romance", "war" >> }

Case(has_id, has_user_tags, user_tags, story_snippet) ==
    [ has_id |-> has_id, has_user_tags |-> has_user_tags, has_story_snippet |-> TRUE,
      user_tags |-> user_tags, story_snippet |-> story_snippet, expected_logic |-> "" ]

\* the records of a test-case file: complete ones, one whose snippet is null,
\* one without "id" and one without "user_tags"
Cases ==
    { Case(TRUE, TRUE, tags, JsonString(s)) : tags \in UserTags, s \in StorySnippets }
    \cup { Case(TRUE, TRUE, << >>, JsonNull),
           Case(FALSE, TRUE, << >>, JsonString(<< "A", "I" >>)),
           Case(TRUE, FALSE, << >>, JsonString(<< "A", "I" >>)) }

NoCall == NotEntered("", Counters(0, 0, 0, 0))

NoExtractCall ==
    [ done |-> FALSE, snippet |-> << >>, variant |-> << >>,
      out |-> NoExtraction, variant_out |-> NoExtraction ]

NoValidateCall ==
    [ done |-> FALSE, input |-> UNMAPPED, category |-> UNMAPPED, corrected |-> FALSE ]

\* the instance after __init__
Constructed ==
    /\ taxonomy \in Taxonomies
    /\ valid_categories = BuildValidCategorySet(taxonomy)
    /\ hash_seed \in HashSeeds
    /\ llm_call_count = 0
    /\ total_tokens = 0
    /\ validation_triggers = 0
    /\ hallucinations_caught = 0
    /\ pc = "idle"
    /\ results = << >>
    /\ last = NoCall
    /\ invocations = 0

Init ==
    /\ Constructed
    /\ ext = NoExtractCall
    /\ val = NoValidateCall

\* process_test_cases: the file is read and `results = []`
Begin ==
    /\ pc = "idle"
    /\ pc' = "running"
    /\ results' = << >>
    /\ UNCHANGED << taxonomy, valid_categories, hash_seed, counters, last,
                    invocations, ext, val >>

\* one iteration of `for case in test_cases`, the model answering `response`
Iteration(case, response) ==
    LET ctr == Counters(llm_call_count, total_tokens, validation_triggers,
                        hallucinations_caught)
    IN  \E o \in { TryMapStory(case, response, ctr) } :
        LET result == IF o.raised THEN DegradedResult(o.error) ELSE o.result IN
        /\ llm_call_count' = o.ctr.llm_call_count
        /\ total_tokens' = o.ctr.total_tokens
        /\ validation_triggers' = o.ctr.validation_triggers
        /\ hallucinations_caught' = o.ctr.hallucinations_caught
        /\ invocations' = invocations + o.invoked
        /\ last' = o
        /\ IF case.has_id
           THEN /\ results' = Append(results,
                                     Record(Len(results) + 1, result, case.expected_logic))
                /\ pc' = pc
           ELSE \* case["id"] outside the try block: the KeyError leaves the loop
                /\ results' = results
                /\ pc' = "raised"

ProcessCase ==
    /\ pc = "running"
    /\ Len(results) < MaxCases
    /\ \E case \in Cases :
          \E response \in (IF ReachesModel(case) THEN Responses ELSE { NoResponse }) :
              Iteration(case, response)
    /\ UNCHANGED << taxonomy, valid_categories, hash_seed, ext, val >>

\* `return results`
Return ==
    /\ pc = "running"
    /\ pc' = "returned"
    /\ UNCHANGED << taxonomy, valid_categories, hash_seed, counters, results, last,
                    invocations, ext, val >>

Next == Begin \/ ProcessCase \/ Return

Spec == Init /\ [][Next]_vars

-----------------------------------------------------------------------------
(* Direct calls of _extract_candidate_subgenres: the snippet and a snippet  *)
(* that differs from it only in letter case are drawn at the start.         *)

Alphabet == { "a", "i", "c", "A" }

RECURSIVE SeqsUpTo(_, _)
\* the sequences over S of length at most n
SeqsUpTo(S, n) ==
    IF n = 0 THEN { << >> }
    ELSE LET shorter == SeqsUpTo(S, n - 1)
         IN  shorter \cup { Append(s, x) : s \in { q \in shorter : Len(q) = n - 1 }, x \in S }

Snippets == SeqsUpTo(Alphabet, MaxSnippetLen)

RECURSIVE CaseVariants(_)
\* the snippets that differ from s only in letter case
CaseVariants(s) ==
    IF s = << >> THEN { << >> }
    ELSE { << c >> \o rest :
             c \in { d \in Alphabet : LowerChar(d) = LowerChar(Head(s)) },
             rest \in CaseVariants(Tail(s)) }

InitExtract ==
    /\ Constructed
    /\ \E s \in Snippets : \E v \in CaseVariants(s) :
          ext = [NoExtractCall EXCEPT !.snippet = s, !.variant = v]
    /\ val = NoValidateCall

ExtractCall ==
    /\ ~ext.done
    /\ ext' = [ext EXCEPT
                 !.done = TRUE,
                 !.out = ExtractCandidateSubgenres(taxonomy, hash_seed, ext.snippet),
                 !.variant_out = ExtractCandidateSubgenres(taxonomy, hash_seed, ext.variant)]
    /\ UNCHANGED << taxonomy, valid_categories, hash_seed, counters, pc, results, last,
                    invocations, val >>

SpecExtract == InitExtract /\ [][ExtractCall]_vars

-----------------------------------------------------------------------------
(* Direct calls of _validate_mapping on strings *)

ValidatorInputs ==
    { UNMAPPED, << "Spy Fiction" >>, Category("thriller", "espionage") }
        \cup valid_categories \cup InventedCategories

ValidateCall ==
    /\ hallucinations_caught < MaxValidateCalls
    /\ \E s \in ValidatorInputs :
          \E v \in { ValidateMapping(JsonString(s), hallucinations_caught) } :
             /\ ~v.raised
             /\ hallucinations_caught' = v.hallucinations_caught
             /\ val' = [ done |-> TRUE, input |-> s, category |-> v.category,
                         corrected |-> v.corrected ]
    /\ UNCHANGED << taxonomy, valid_categories, hash_seed, llm_call_count, total_tokens,
                    validation_triggers, pc, results, last, invocations, ext >>

SpecValidate == Init /\ [][ValidateCall]_vars

-----------------------------------------------------------------------------
(* Properties *)

Range(s) == { s[i] : i \in 1..Len(s) }

NoDuplicates(s) == \A i, j \in 1..Len(s) : s[i] = s[j] => i = j

\* Sub-genre is listed under Genre somewhere in the taxonomy
Listed(genre, subgenre) ==
    \E c \in 1..Len(taxonomy) :
        \E g \in 1..Len(taxonomy[c][2]) :
            /\ taxonomy[c][2][g][1] = genre
            /\ subgenre \in Range(taxonomy[c][2][g][2])

GenreNames == { "Thriller", "Sci-Fi", "Espionage" }

SubgenreNames == DOMAIN keyword_map \cup { "SuperSpy" }

\* C9: the candidate list of _extract_candidate_subgenres has no duplicates
\* and contains "Genre/Sub-genre" exactly when Sub-genre is listed under Genre
\* in the taxonomy and some keyword of Sub-genre occurs in the lowercased
\* snippet; so every candidate is a valid category, and a snippet that differs
\* only in letter case yields the same candidate list.
C9_Candidates ==
    ext.done =>
        /\ NoDuplicates(ext.out.candidates)
        /\ \A genre \in GenreNames, subgenre \in SubgenreNames :
              Category(genre, subgenre) \in Range(ext.out.candidates)
                <=> /\ Listed(genre, subgenre)
                    /\ \E k \in Range(KeywordsOf(subgenre)) :
                          Contains(Lower(ext.snippet), k)
        /\ Range(ext.out.candidates) \subseteq valid_categories
        /\ ext.variant_out.candidates = ext.out.candidates

\* C9 witness: a mixed-case snippet gave two candidates, its variant differs
C9_Witness ==
    /\ ext.done
    /\ Len(ext.out.candidates) = 2
    /\ ext.variant # ext.snippet
    /\ ext.snippet # Lower(ext.snippet)

\* C2: _validate_mapping returns (S, false) and leaves hallucinations_caught
\* alone when S is the sentinel or a valid category, and returns
\* ("[UNMAPPED]", true) and adds exactly one to hallucinations_caught for every
\* other string; no other counter and not the valid category set changes.
C2_ValidateMapping ==
    [][ val'.done =>
          /\ IF val'.input = UNMAPPED \/ val'.input \in valid_categories
             THEN /\ val'.category = val'.input
                  /\ val'.corrected = FALSE
                  /\ hallucinations_caught' = hallucinations_caught
             ELSE /\ val'.category = UNMAPPED
                  /\ val'.corrected = TRUE
                  /\ hallucinations_caught' = hallucinations_caught + 1
          /\ UNCHANGED << llm_call_count, total_tokens, validation_triggers,
                          valid_categories >> ]_vars

\* C2 witness: an invented category was rejected after an earlier rejection
C2_Witness ==
    /\ val.done
    /\ val.input \in InventedCategories
    /\ val.corrected
    /\ hallucinations_caught = 2

-----------------------------------------------------------------------------
(* Properties of the pipeline and the batch runner *)

Allowed == valid_categories \cup { UNMAPPED }

\* the most recent call of map_story returned a result
Returned == last.entered /\ ~last.raised

\* the most recent call of map_story returned the result of a model answer
Answered == Returned /\ last.invoked = 1

\* this step is one iteration of the loop of process_test_cases
IterationStep ==
    /\ pc = "running"
    /\ Len(results') = Len(results) + 1 \/ pc' = "raised"

\* C1: the mapped_category of every result of map_story and of every record
\* of process_test_cases is the sentinel or a valid category, and a category
\* other than the sentinel is the model's answer only where that answer is valid.
C1_OnlyValidCategories ==
    /\ \A i \in 1..Len(results) : results[i].mapped_category \in Allowed
    /\ Returned => last.result.mapped_category \in Allowed
    /\ (Answered /\ last.answer.value.type = "string"
          /\ last.answer.value.str \notin Allowed)
         => (last.result.mapped_category = UNMAPPED /\ last.rejected)

\* C1 witness: the model invented a category and the record carries the sentinel
C1_Witness ==
    /\ Answered
    /\ last.answer.value.str \in InventedCategories
    /\ Len(results) = 2
    /\ results[2].mapped_category = UNMAPPED
    /\ results[1].mapped_category \in valid_categories

\* C3: when the extractor returns no candidate, map_story returns the sentinel
\* with confidence 0.99, validated false and no patterns, the completion
\* endpoint is not invoked and the four counters keep their values.
C3_ShortCircuit ==
    [][ (IterationStep /\ last'.extracted /\ last'.candidates = << >>)
          => /\ ~last'.raised
             /\ last'.result.mapped_category = UNMAPPED
             /\ last'.result.confidence = 99
             /\ last'.result.validated = FALSE
             /\ last'.result.patterns = << >>
             /\ last'.invoked = 0
             /\ invocations' = invocations
             /\ UNCHANGED counters ]_vars

\* C3 witness: a snippet without candidates was mapped after a model call
C3_Witness ==
    /\ last.extracted
    /\ last.candidates = << >>
    /\ Len(results) = 2
    /\ llm_call_count = 1
    /\ results[2].confidence = 99

\* C5: a case with candidates gets exactly one call of the completion
\* endpoint, no case gets more, and the counters are raised before the call:
\* llm_call_count is the number of calls attempted, failed ones included, and
\* total_tokens holds the words of every one of their prompts.
C5_OneAttempt ==
    /\ llm_call_count = invocations
    /\ last.invoked \in {0, 1}
    /\ (last.extracted /\ last.candidates # << >>) => last.invoked = 1
    /\ (last.candidates = << >>) => last.invoked = 0
    /\ total_tokens >= (PromptTemplateWords + 3) * invocations
    /\ invocations <= Len(results) + (IF pc = "raised" THEN 1 ELSE 0)

\* C5 witness: the second of two calls failed in the service and was counted
C5_Witness ==
    /\ last.error = "APIError"
    /\ last.invoked = 1
    /\ llm_call_count = 2
    /\ Len(results) = 2

\* C8: the four counters start at 0 and no step decreases any of them.
C8_Monotone ==
    /\ counters = << 0, 0, 0, 0 >>
    /\ [][ /\ llm_call_count' >= llm_call_count
           /\ total_tokens' >= total_tokens
           /\ validation_triggers' >= validation_triggers
           /\ hallucinations_caught' >= hallucinations_caught ]_vars

\* C8 witness: two model calls were counted and one hallucination caught
C8_Witness ==
    /\ llm_call_count = 2
    /\ hallucinations_caught = 1
    /\ validation_triggers = 1
    /\ total_tokens > 2 * PromptTemplateWords

\* C10 as claimed: a mapped_category other than the sentinel is one of the
\* candidates extracted for the case's snippet.
C10_WithinCandidates ==
    (Answered /\ last.result.mapped_category # UNMAPPED)
        => last.result.mapped_category \in Range(last.candidates)

\* C10 as amended: the answer of the model is checked against the valid
\* category set only: a valid category is returned as answered, also when it
\* is none of the case's candidates, and every other answer gives the sentinel.
C10_WithinTaxonomy ==
    Answered =>
        IF last.answer.value.type = "string" /\ last.answer.value.str \in valid_categories
        THEN last.result.mapped_category = last.answer.value.str
        ELSE last.result.mapped_category = UNMAPPED

\* C10 witness: the result is a valid category outside the candidate list
C10_Witness ==
    /\ Answered
    /\ last.result.mapped_category \in valid_categories
    /\ last.result.mapped_category \notin Range(last.candidates)
    /\ Len(results) = 1

\* C4: in process_test_cases a case whose processing raises yields a degraded
\* record for that case only, the batch is never aborted, and the list holds
\* one record per case in input order.
C4_ErrorsIsolated ==
    /\ pc # "raised"
    /\ \A i \in 1..Len(results) : results[i].test_case_id = i
    /\ (Len(results) > 0 /\ (last.raised \/ ~last.entered))
         => /\ results[Len(results)].mapped_category = UNMAPPED
            /\ results[Len(results)].confidence = 0
            /\ results[Len(results)].validated = FALSE

\* C6: a record has validated = true exactly when the validator rejected the
\* model's answer for its case; validated implies the sentinel, and the
\* records with validated = true are as many as hallucinations_caught and
\* as validation_triggers.
C6_ValidatedCountsRejections ==
    /\ \A i \in 1..Len(results) :
          results[i].validated => results[i].mapped_category = UNMAPPED
    /\ (Len(results) > 0 /\ pc # "raised")
         => (results[Len(results)].validated <=> last.rejected)
    /\ Cardinality({ i \in 1..Len(results) : results[i].validated })
         = hallucinations_caught
    /\ Cardinality({ i \in 1..Len(results) : results[i].validated })
         = validation_triggers

\* C7: the confidence of every result is in [0,1]: 0.99 on the short-circuit,
\* 0.0 on a degraded result, else the model's confidence or 0.85 without one.
C7_ConfidenceInUnitInterval ==
    /\ \A i \in 1..Len(results) : results[i].confidence \in 0..100
    /\ Returned => last.result.confidence \in 0..100

====
